---- MODULE Spec2Model ----
(***************************************************************************)
(* Model of src/caproto/fake_selene_motor_record.py: the pitch selectors   *)
(* (FakePitchSelector), the interlock of FakeSeleneIOC (can_move,          *)
(* can_enable) and the motor record simulator (motor_record_simulator).    *)
(*                                                                         *)
(* Conventions                                                             *)
(*  - A pvproperty is a cell that holds the last value written to it.      *)
(*    Python values are kept apart by type: the int 0 is "0", the bools    *)
(*    are "True"/"False", the strings are "true"/"false".  Comparisons     *)
(*    follow Python's == (True == 1, False == 0, a str equals no number).  *)
(*  - Positions are exact rationals <<numerator, denominator>>; binary     *)
(*    floating point rounding is not modelled.                             *)
(*  - The simulator is a coroutine: other code runs only while it is       *)
(*    suspended in async_lib.library.sleep(dwell).                         *)
(***************************************************************************)
EXTENDS Integers, Sequences, FiniteSets, TLC

\* ---------------------------------------------------------------- bounds
\* Channels per interlock group (the IOC declares 18 per group).
ChannelsPerGroup == 2
\* Client reads of and puts to the P{index}:Selectable PVs in one behaviour.
MaxSelectableOps == 1
\* Client puts to motor.VAL, motor.STOP and motor.SPMG in one behaviour.
MaxTargetPuts == 2
MaxStopPuts == 1
MaxSpmgPuts == 1
\* Client puts to motor.VELO and motor.MRES in one behaviour.
MaxFieldPuts == 1

\* ------------------------------------------------------- program constants
\* mcu1, mcu2 and the two channel groups p1..p18, p19..p36.
NumGroups == 2

Groups == 1..NumGroups
Channels == 1..(NumGroups * ChannelsPerGroup)

\* mcu_index=1 for the first group of SubGroups, mcu_index=2 for the second.
mcu_index(ch) == ((ch - 1) \div ChannelsPerGroup) + 1

GroupChannels(g) == {ch \in Channels : mcu_index(ch) = g}

\* ------------------------------------------------------------ Python values
PyBool(b) == IF b THEN "True" ELSE "False"

\* Python's a == b on the values a channel cell can hold.
PyEq(a, b) ==
    \/ a = b
    \/ {a, b} = {"True", "1"}
    \/ {a, b} = {"False", "0"}

\* Python's  a in [x, y, ...]
PyIn(a, list) == \E x \in list : PyEq(a, x)

\* The enum strings of the selector PVs.
enum_strings == {"true", "false"}

\* The targets a client writes: 0, 0.05, 0.25 and 0.3.
Targets == {<<0, 1>>, <<1, 20>>, <<1, 4>>, <<3, 10>>}

\* The rounding error of one floating-point addition, in units of the last
\* place of the larger end of the move: down, none, up.
Rounding == {-1, 0, 1}

\* The enum strings of motor.SPMG.
SpmgValues == {"Stop", "Pause", "Move", "Go"}

\* Motors mcu1, mcu2: motor m is gated by group m (index=1, index=2).
Motors == Groups

\* tick_rate_hz=10. (FakeMotor.__init__), so dwell = 1/10 s.
tick_rate_hz == 10
\* velocity=1. of mcu1 and mcu2.
DefaultVelocity == 1
\* abs(diff) < 1e-9: 1e-9 = 1 / EpsilonInv.
EpsilonInv == 1000000000
\* Resolutions are counted in units of 1e-10: resolution=1e-6 is 10000
\* units, and the floor of max((MRES, 1e-10)) is one unit.
DefaultResolution == 10000
MinResolution == 1

\* The velocities and resolutions a FakeMotor is constructed with, or a
\* client puts to motor.VELO and motor.MRES.
Velocities == {-1, 0, 1}
Resolutions == {-10000, 0, 10000}

VARIABLES
    enable_rbv,       \* P{index}:Selected, per channel
    selectable,       \* stored value of P{index}:Selectable, per channel
    selectable_ops,   \* client reads of and puts to Selectable PVs so far
    last_read,        \* history: the client read of a Selectable PV that
                      \* was the latest operation, [ch, result]
    last_enable,      \* history: the last put to a Select PV, [ch, val,
                      \* before], before being enable_rbv[ch] as it found it
    value,               \* motor.VAL (instance.value): the commanded target
    user_readback_value, \* motor.RBV
    stop,                \* motor.STOP
    stop_pause_move_go,  \* motor.SPMG
    motor_is_moving,     \* motor.MOVN
    velocity,            \* motor.VELO
    have_new_position,   \* the simulator's nonlocal flag
    pc,                  \* where each simulator coroutine stands
    target_pos,          \* locals of motor_record_simulator
    diff,
    num_steps,
    step_size,
    readback,
    steps_done,          \* iterations of the for loop completed
    defaults,            \* FakeMotor.defaults: velocity and resolution
    motor_step_size,     \* motor.MRES
    resolution,          \* local of motor_record_simulator
    raw_readback_value,  \* motor.RRBV, <<readback, resolution>> for the
                         \* quotient readback / resolution
    field_puts,          \* client puts to VELO and MRES so far
    target_puts,         \* client puts so far, per kind
    stop_puts,
    spmg_puts,
    \* history, per motor, read by the properties only
    written,      \* the last target a client put to motor.VAL
    late,         \* a STOP was put after that target, or SPMG was
                  \* 'Stop' when it was put or was put to 'Stop' after it
    redirect,     \* "pending": another target was put during the move
                  \* in progress; "started": the move to it has begun
    away,         \* when that target was put, the target of the move
                  \* in progress was not on the way to it
    old_target,   \* the target of the move a "pending" target found
    start_pos,    \* readback and target when the latest move began
    move_target,
    elapsed,      \* sleeps of the latest move that have returned
    broke,        \* the latest move left its for loop by a break
    since_stop,   \* -1, or the sleeps returned since a STOP put that
                  \* found the motor moving (at most 2)
    stop_rbv,     \* the readback that STOP put found
    tick_pre,     \* the fields as the pass of the while loop that began
                  \* from rest found them, until a client puts again
    \* binary floating point
    drift,        \* what the rounded additions of the latest move have put
                  \* between motor.RBV and the exact sum user_readback_value
                  \* stands for, in units of the last place
    rounding      \* the errors one rounded addition can make, in those
                  \* units: {0} where the arithmetic is taken as exact

ilk_vars == <<enable_rbv, selectable, selectable_ops, last_enable, last_read>>

mtr_vars == <<value, user_readback_value, stop, stop_pause_move_go,
              motor_is_moving, velocity, have_new_position, pc, target_pos,
              diff, num_steps, step_size, readback, steps_done,
              defaults, motor_step_size, resolution, raw_readback_value,
              field_puts,
              target_puts, stop_puts, spmg_puts, written, late,
              redirect, away, old_target, start_pos, move_target, elapsed, broke,
              since_stop, stop_rbv, tick_pre, drift, rounding>>

fld_vars == <<defaults, motor_step_size, resolution, raw_readback_value,
              field_puts>>

hist_vars == <<written, late, redirect, away, old_target, start_pos,
               move_target, elapsed, broke, since_stop, stop_rbv>>

vars == <<ilk_vars, mtr_vars>>

\* ------------------------------------------------------------- interlock
\* can_move with all() where the code has any().
can_move_all(g) ==
    \A pitch \in GroupChannels(g) : PyIn(enable_rbv[pitch], {"true", "1"})

\* can_move testing against can_enable's list ['true', 0].
can_move_list0(g) ==
    \E pitch \in GroupChannels(g) : PyIn(enable_rbv[pitch], {"true", "0"})

\* FakeSeleneIOC.can_move()[g - 1]
can_move(g) ==
    \E pitch \in GroupChannels(g) : PyIn(enable_rbv[pitch], {"true", "1"})

\* can_enable with any() where the code has all().
can_enable_any(g) ==
    \E pitch \in GroupChannels(g) : PyIn(enable_rbv[pitch], {"true", "0"})

\* FakeSeleneIOC.can_enable()[g - 1]
can_enable(g) ==
    \A pitch \in GroupChannels(g) : PyIn(enable_rbv[pitch], {"true", "0"})

\* FakePitchSelector.selectable getter: the value a read of Selectable yields.
selectable_getter(ch) ==
    IF enable_rbv[ch] = "true"
        THEN "true"
        ELSE PyBool(can_enable(mcu_index(ch)))

NoRead == [ch |-> 0, result |-> "none"]

\* A client reads P{index}:Selectable: the getter runs and its result
\* becomes the stored value.
selectable_read(ch) ==
    /\ selectable_ops < MaxSelectableOps
    /\ selectable_ops' = selectable_ops + 1
    /\ selectable' = [selectable EXCEPT ![ch] = selectable_getter(ch)]
    /\ last_read' = [ch |-> ch, result |-> selectable_getter(ch)]
    /\ UNCHANGED <<enable_rbv, last_enable>>
    /\ UNCHANGED mtr_vars

\* A client puts to P{index}:Selectable (the PV is not read_only and has no
\* putter).
selectable_put(ch, val) ==
    /\ selectable_ops < MaxSelectableOps
    /\ selectable_ops' = selectable_ops + 1
    /\ selectable' = [selectable EXCEPT ![ch] = val]
    /\ last_read' = NoRead
    /\ UNCHANGED <<enable_rbv, last_enable>>
    /\ UNCHANGED mtr_vars

\* enable as a toggle on the channel's truth value: current is taken true
\* for every value that reads as on, not only for the string 'true'.
enable_result_toggle(ch, val) ==
    IF selectable[ch] = "false"
        THEN enable_rbv[ch]
    ELSE IF val = "false"
        THEN enable_rbv[ch]
    ELSE LET current == enable_rbv[ch] \in {"true", "True", "1"}
         IN  PyBool(~current)

\* The value FakePitchSelector.enable writes to enable_rbv, or the old value
\* when the putter returns early.
enable_result(ch, val) ==
    IF selectable[ch] = "false"
        THEN enable_rbv[ch]
    ELSE IF val = "false"
        THEN enable_rbv[ch]
    ELSE LET current == (enable_rbv[ch] = "true")
         IN  PyBool(~current)

\* FakePitchSelector.enable putter: a client puts val to P{index}:Select.
enable(ch, val) ==
    /\ enable_rbv' = [enable_rbv EXCEPT ![ch] = enable_result(ch, val)]
    /\ last_enable' = [ch |-> ch, val |-> val, before |-> enable_rbv[ch]]
    /\ last_read' = NoRead
    /\ UNCHANGED <<selectable, selectable_ops>>
    /\ UNCHANGED mtr_vars

IlkInit ==
    /\ enable_rbv = [ch \in Channels |-> "0"]
    /\ selectable = [ch \in Channels |-> "0"]
    /\ selectable_ops = 0
    /\ last_enable = [ch |-> 0, val |-> "none", before |-> "none"]
    /\ last_read = NoRead

\* ------------------------------------------------------------- rationals
Abs(x) == IF x < 0 THEN -x ELSE x

RECURSIVE GCD(_, _)
GCD(a, b) == IF b = 0 THEN a ELSE GCD(b, a % b)

\* The rational n/d (d > 0) in lowest terms.
Rat(n, d) == LET g == GCD(Abs(n), d) IN <<n \div g, d \div g>>

Zero == <<0, 1>>
RAdd(a, b) == Rat(a[1] * b[2] + b[1] * a[2], a[2] * b[2])
RSub(a, b) == Rat(a[1] * b[2] - b[1] * a[2], a[2] * b[2])
RAbs(a) == <<Abs(a[1]), a[2]>>
RLess(a, b) == a[1] * b[2] < b[1] * a[2]
\* a * k in place of a / k: every step as long as the whole move.
RDivInt_times(a, k) == Rat(a[1] * k, a[2])
\* a / k for an integer k > 0
RDivInt(a, k) == Rat(a[1], a[2] * k)

RLeq(a, b) == a[1] * b[2] <= b[1] * a[2]
\* p lies in the closed interval between a and b.
OnTheWay(p, a, b) ==
    \/ RLeq(a, p) /\ RLeq(p, b)
    \/ RLeq(b, p) /\ RLeq(p, a)

\* abs(d) < 1e-9, computed without leaving 32-bit integers:
\* |n|/den < 1/E  iff  |n| * E < den  iff  |n| <= (den - 1) div E.
Small(d) == Abs(d[1]) <= (d[2] - 1) \div EpsilonInv

\* The step count one too high: no step is left to the final write.
StepCount_plus1(d, v) == (Abs(d[1]) * tick_rate_hz) \div (d[2] * Abs(v)) + 1

\* int(abs(d / v) // dwell) with dwell = 1. / tick_rate_hz, for v # 0.
StepCount(d, v) == (Abs(d[1]) * tick_rate_hz) \div (d[2] * Abs(v))

\* ----------------------------------------------------------------- motor
Sleeping == {"sleep77", "sleep90", "sleep117"}

\* No simulator coroutine is running: each one is yet to be started, is
\* suspended in a sleep, or has died.
AllSuspended == \A m \in Motors : pc[m] \in Sleeping \cup {"init", "error"}

\* The gate of every motor open whatever the selectors hold.
motor_can_move_open(m) == TRUE

\* The gate of a motor opened by a channel of any group.
motor_can_move_any(m) == \E g \in Groups : can_move(g)

\* FakeMotor.can_move: self.parent.can_move()[self.index - 1]
motor_can_move(m) == can_move(m)

Max(a, b) == IF a >= b THEN a ELSE b

NoTick == [valid |-> FALSE]

\* The fields of motor m as a pass of the while loop finds them.
Snapshot(m) ==
    [valid |-> TRUE,
     value |-> value[m],
     rbv |-> user_readback_value[m],
     movn |-> motor_is_moving[m],
     stop |-> stop[m],
     spmg |-> stop_pause_move_go[m],
     pending |-> have_new_position[m],
     gate |-> motor_can_move(m)]

\* motor_record_simulator up to the while loop: the hook is installed and
\* the defaults are written to the fields.
startup(m) ==
    /\ pc[m] = "init"
    /\ AllSuspended
    /\ velocity' = [velocity EXCEPT ![m] = defaults[m].velocity]
    /\ motor_step_size' =
           [motor_step_size EXCEPT ![m] = defaults[m].resolution]
    /\ pc' = [pc EXCEPT ![m] = "top"]
    /\ UNCHANGED <<value, user_readback_value, stop, stop_pause_move_go,
                   motor_is_moving, have_new_position, target_pos, diff,
                   num_steps, step_size, readback, steps_done,
                   target_puts, stop_puts, spmg_puts>>
    /\ UNCHANGED <<defaults, resolution, raw_readback_value, field_puts>>
    /\ tick_pre' = [tick_pre EXCEPT ![m] = Snapshot(m)]
    /\ UNCHANGED hist_vars
    /\ UNCHANGED <<drift, rounding>>
    /\ UNCHANGED ilk_vars

\* loop_top with the nothing-to-do branch leaving a stop request as it is.
loop_top_keep_stop(m) ==
    /\ pc[m] = "top"
    /\ IF ~motor_can_move(m)
         THEN /\ pc' = [pc EXCEPT ![m] = "sleep77"]
              /\ UNCHANGED <<target_pos, diff, num_steps, stop>>
       ELSE IF velocity[m] = 0
         THEN \* diff / fields.velocity.value raises ZeroDivisionError
              /\ pc' = [pc EXCEPT ![m] = "error"]
              /\ target_pos' = [target_pos EXCEPT ![m] = value[m]]
              /\ diff' = [diff EXCEPT
                            ![m] = RSub(value[m], user_readback_value[m])]
              /\ UNCHANGED <<num_steps, stop>>
       ELSE LET d == RSub(value[m], user_readback_value[m])
            IN  /\ target_pos' = [target_pos EXCEPT ![m] = value[m]]
                /\ diff' = [diff EXCEPT ![m] = d]
                /\ num_steps' = [num_steps EXCEPT
                                   ![m] = StepCount(d, velocity[m])]
                /\ IF Small(d) /\ ~have_new_position[m]
                     THEN /\ UNCHANGED stop
                          /\ pc' = [pc EXCEPT ![m] = "sleep90"]
                     ELSE /\ pc' = [pc EXCEPT ![m] = "start"]
                          /\ UNCHANGED stop
    /\ UNCHANGED <<value, user_readback_value, stop_pause_move_go,
                   motor_is_moving, velocity, have_new_position,
                   step_size, readback, steps_done,
                   target_puts, stop_puts, spmg_puts>>
    /\ UNCHANGED <<fld_vars, tick_pre>>
    /\ UNCHANGED hist_vars
    /\ UNCHANGED <<drift, rounding>>
    /\ UNCHANGED ilk_vars

\* The head of the while loop: the move-permission gate, the computation of
\* diff and num_steps, and the nothing-to-do branch.
loop_top(m) ==
    /\ pc[m] = "top"
    /\ IF ~motor_can_move(m)
         THEN /\ pc' = [pc EXCEPT ![m] = "sleep77"]
              /\ UNCHANGED <<target_pos, diff, num_steps, stop>>
       ELSE IF velocity[m] = 0
         THEN \* diff / fields.velocity.value raises ZeroDivisionError
              /\ pc' = [pc EXCEPT ![m] = "error"]
              /\ target_pos' = [target_pos EXCEPT ![m] = value[m]]
              /\ diff' = [diff EXCEPT
                            ![m] = RSub(value[m], user_readback_value[m])]
              /\ UNCHANGED <<num_steps, stop>>
       ELSE LET d == RSub(value[m], user_readback_value[m])
            IN  /\ target_pos' = [target_pos EXCEPT ![m] = value[m]]
                /\ diff' = [diff EXCEPT ![m] = d]
                /\ num_steps' = [num_steps EXCEPT
                                   ![m] = StepCount(d, velocity[m])]
                /\ IF Small(d) /\ ~have_new_position[m]
                     THEN /\ stop' = [stop EXCEPT ![m] = 0]
                          /\ pc' = [pc EXCEPT ![m] = "sleep90"]
                     ELSE /\ pc' = [pc EXCEPT ![m] = "start"]
                          /\ UNCHANGED stop
    /\ UNCHANGED <<value, user_readback_value, stop_pause_move_go,
                   motor_is_moving, velocity, have_new_position,
                   step_size, readback, steps_done,
                   target_puts, stop_puts, spmg_puts>>
    /\ UNCHANGED <<fld_vars, tick_pre>>
    /\ UNCHANGED hist_vars
    /\ UNCHANGED <<drift, rounding>>
    /\ UNCHANGED ilk_vars

\* start_move without the write of 1 to MOVN.
start_move_unflagged(m) ==
    /\ pc[m] = "start"
    /\ stop' = [stop EXCEPT ![m] = 0]
    /\ UNCHANGED motor_is_moving
    /\ readback' = [readback EXCEPT ![m] = user_readback_value[m]]
    /\ step_size' = [step_size EXCEPT
                       ![m] = IF num_steps[m] > 0
                                THEN RDivInt(diff[m], num_steps[m])
                                ELSE Zero]
    /\ resolution' = [resolution EXCEPT
                        ![m] = Max(motor_step_size[m], MinResolution)]
    /\ steps_done' = [steps_done EXCEPT ![m] = 0]
    /\ pc' = [pc EXCEPT ![m] = "for"]
    /\ UNCHANGED <<defaults, motor_step_size, raw_readback_value,
                   field_puts, tick_pre>>
    /\ UNCHANGED <<value, user_readback_value, stop_pause_move_go, velocity,
                   have_new_position, target_pos, diff, num_steps,
                   target_puts, stop_puts, spmg_puts>>
    /\ start_pos' = [start_pos EXCEPT ![m] = user_readback_value[m]]
    /\ move_target' = [move_target EXCEPT ![m] = target_pos[m]]
    /\ elapsed' = [elapsed EXCEPT ![m] = 0]
    /\ broke' = [broke EXCEPT ![m] = FALSE]
    /\ redirect' = [redirect EXCEPT
                      ![m] = IF redirect[m] = "pending" THEN "started"
                             ELSE "no"]
    /\ UNCHANGED <<written, late, away, old_target, since_stop, stop_rbv>>
    /\ drift' = [drift EXCEPT ![m] = 0]
    /\ UNCHANGED rounding
    /\ UNCHANGED ilk_vars

\* The start of a move: a pending stop is dropped, MOVN is set, the step
\* size is fixed for the whole move.
start_move(m) ==
    /\ pc[m] = "start"
    /\ stop' = [stop EXCEPT ![m] = 0]
    /\ motor_is_moving' = [motor_is_moving EXCEPT ![m] = 1]
    /\ readback' = [readback EXCEPT ![m] = user_readback_value[m]]
    /\ step_size' = [step_size EXCEPT
                       ![m] = IF num_steps[m] > 0
                                THEN RDivInt(diff[m], num_steps[m])
                                ELSE Zero]
    /\ resolution' = [resolution EXCEPT
                        ![m] = Max(motor_step_size[m], MinResolution)]
    /\ steps_done' = [steps_done EXCEPT ![m] = 0]
    /\ pc' = [pc EXCEPT ![m] = "for"]
    /\ UNCHANGED <<defaults, motor_step_size, raw_readback_value,
                   field_puts, tick_pre>>
    /\ UNCHANGED <<value, user_readback_value, stop_pause_move_go, velocity,
                   have_new_position, target_pos, diff, num_steps,
                   target_puts, stop_puts, spmg_puts>>
    /\ start_pos' = [start_pos EXCEPT ![m] = user_readback_value[m]]
    /\ move_target' = [move_target EXCEPT ![m] = target_pos[m]]
    /\ elapsed' = [elapsed EXCEPT ![m] = 0]
    /\ broke' = [broke EXCEPT ![m] = FALSE]
    /\ redirect' = [redirect EXCEPT
                      ![m] = IF redirect[m] = "pending" THEN "started"
                             ELSE "no"]
    /\ UNCHANGED <<written, late, away, old_target, since_stop, stop_rbv>>
    /\ drift' = [drift EXCEPT ![m] = 0]
    /\ UNCHANGED rounding
    /\ UNCHANGED ilk_vars

\* for_body re-reading the target: when VAL no longer equals the target
\* the move began with, the move ends where it stands and the loop starts
\* over toward the new target.
for_body_retarget(m) ==
    /\ pc[m] = "for"
    /\ steps_done[m] < num_steps[m]
    /\ IF stop[m] # 0
         THEN /\ stop' = [stop EXCEPT ![m] = 0]
              /\ value' = [value EXCEPT ![m] = readback[m]]
              /\ pc' = [pc EXCEPT ![m] = "finish"]
              /\ UNCHANGED <<readback, user_readback_value, steps_done,
                             raw_readback_value, drift>>
       ELSE IF stop_pause_move_go[m] = "Stop"
         THEN /\ value' = [value EXCEPT ![m] = readback[m]]
              /\ pc' = [pc EXCEPT ![m] = "finish"]
              /\ UNCHANGED <<stop, readback, user_readback_value, steps_done,
                             raw_readback_value, drift>>
       ELSE IF value[m] # target_pos[m]
         THEN /\ pc' = [pc EXCEPT ![m] = "finish"]
              /\ UNCHANGED <<stop, value, readback, user_readback_value,
                             steps_done, raw_readback_value, drift>>
       ELSE LET r == RAdd(readback[m], step_size[m])
            IN  /\ readback' = [readback EXCEPT ![m] = r]
                /\ user_readback_value' =
                       [user_readback_value EXCEPT ![m] = r]
                /\ steps_done' = [steps_done EXCEPT ![m] = steps_done[m] + 1]
                /\ raw_readback_value' =
                       [raw_readback_value EXCEPT ![m] = <<r, resolution[m]>>]
                /\ pc' = [pc EXCEPT ![m] = "sleep117"]
                /\ UNCHANGED <<stop, value>>
                /\ \E e \in rounding :
                       drift' = [drift EXCEPT ![m] = drift[m] + e]
    /\ UNCHANGED <<stop_pause_move_go, motor_is_moving, velocity,
                   have_new_position, target_pos, diff, num_steps, step_size,
                   target_puts, stop_puts, spmg_puts>>
    /\ UNCHANGED <<defaults, motor_step_size, resolution, field_puts,
                   tick_pre>>
    /\ LET breaks == stop[m] # 0 \/ stop_pause_move_go[m] = "Stop"
       IN  /\ broke' = [broke EXCEPT ![m] = breaks]
           /\ redirect' = [redirect EXCEPT
                             ![m] = IF breaks THEN "no" ELSE redirect[m]]
    /\ UNCHANGED <<written, late, away, old_target, start_pos,
                   move_target, elapsed, since_stop, stop_rbv>>
    /\ UNCHANGED rounding
    /\ UNCHANGED ilk_vars

\* for_body with the breaks leaving VAL as it is.
for_body_keep_target(m) ==
    /\ pc[m] = "for"
    /\ steps_done[m] < num_steps[m]
    /\ IF stop[m] # 0
         THEN /\ stop' = [stop EXCEPT ![m] = 0]
              /\ value' = value
              /\ pc' = [pc EXCEPT ![m] = "finish"]
              /\ UNCHANGED <<readback, user_readback_value, steps_done,
                             raw_readback_value, drift>>
       ELSE IF stop_pause_move_go[m] = "Stop"
         THEN /\ value' = value
              /\ pc' = [pc EXCEPT ![m] = "finish"]
              /\ UNCHANGED <<stop, readback, user_readback_value, steps_done,
                             raw_readback_value, drift>>
       ELSE LET r == RAdd(readback[m], step_size[m])
            IN  /\ readback' = [readback EXCEPT ![m] = r]
                /\ user_readback_value' =
                       [user_readback_value EXCEPT ![m] = r]
                /\ steps_done' = [steps_done EXCEPT ![m] = steps_done[m] + 1]
                /\ raw_readback_value' =
                       [raw_readback_value EXCEPT ![m] = <<r, resolution[m]>>]
                /\ pc' = [pc EXCEPT ![m] = "sleep117"]
                /\ UNCHANGED <<stop, value>>
                /\ \E e \in rounding :
                       drift' = [drift EXCEPT ![m] = drift[m] + e]
    /\ UNCHANGED <<stop_pause_move_go, motor_is_moving, velocity,
                   have_new_position, target_pos, diff, num_steps, step_size,
                   target_puts, stop_puts, spmg_puts>>
    /\ UNCHANGED <<defaults, motor_step_size, resolution, field_puts,
                   tick_pre>>
    /\ LET breaks == stop[m] # 0 \/ stop_pause_move_go[m] = "Stop"
       IN  /\ broke' = [broke EXCEPT ![m] = breaks]
           /\ redirect' = [redirect EXCEPT
                             ![m] = IF breaks THEN "no" ELSE redirect[m]]
    /\ UNCHANGED <<written, late, away, old_target, start_pos,
                   move_target, elapsed, since_stop, stop_rbv>>
    /\ UNCHANGED rounding
    /\ UNCHANGED ilk_vars

\* One iteration of  for _ in range(num_steps):  either a break on STOP or
\* on SPMG == 'Stop', or one step followed by the sleep.
for_body(m) ==
    /\ pc[m] = "for"
    /\ steps_done[m] < num_steps[m]
    /\ IF stop[m] # 0
         THEN /\ stop' = [stop EXCEPT ![m] = 0]
              /\ value' = [value EXCEPT ![m] = readback[m]]
              /\ pc' = [pc EXCEPT ![m] = "finish"]
              /\ UNCHANGED <<readback, user_readback_value, steps_done,
                             raw_readback_value, drift>>
       ELSE IF stop_pause_move_go[m] = "Stop"
         THEN /\ value' = [value EXCEPT ![m] = readback[m]]
              /\ pc' = [pc EXCEPT ![m] = "finish"]
              /\ UNCHANGED <<stop, readback, user_readback_value, steps_done,
                             raw_readback_value, drift>>
       ELSE LET r == RAdd(readback[m], step_size[m])
            IN  /\ readback' = [readback EXCEPT ![m] = r]
                /\ user_readback_value' =
                       [user_readback_value EXCEPT ![m] = r]
                /\ steps_done' = [steps_done EXCEPT ![m] = steps_done[m] + 1]
                /\ raw_readback_value' =
                       [raw_readback_value EXCEPT ![m] = <<r, resolution[m]>>]
                /\ pc' = [pc EXCEPT ![m] = "sleep117"]
                /\ UNCHANGED <<stop, value>>
                /\ \E e \in rounding :
                       drift' = [drift EXCEPT ![m] = drift[m] + e]
    /\ UNCHANGED <<stop_pause_move_go, motor_is_moving, velocity,
                   have_new_position, target_pos, diff, num_steps, step_size,
                   target_puts, stop_puts, spmg_puts>>
    /\ UNCHANGED <<defaults, motor_step_size, resolution, field_puts,
                   tick_pre>>
    /\ LET breaks == stop[m] # 0 \/ stop_pause_move_go[m] = "Stop"
       IN  /\ broke' = [broke EXCEPT ![m] = breaks]
           /\ redirect' = [redirect EXCEPT
                             ![m] = IF breaks THEN "no" ELSE redirect[m]]
    /\ UNCHANGED <<written, late, away, old_target, start_pos,
                   move_target, elapsed, since_stop, stop_rbv>>
    /\ UNCHANGED rounding
    /\ UNCHANGED ilk_vars

\* The else clause of the for loop: the step count is exhausted.
for_else(m) ==
    /\ pc[m] = "for"
    /\ steps_done[m] >= num_steps[m]
    /\ user_readback_value' =
           [user_readback_value EXCEPT ![m] = target_pos[m]]
    /\ pc' = [pc EXCEPT ![m] = "finish"]
    /\ UNCHANGED <<value, stop, stop_pause_move_go, motor_is_moving, velocity,
                   have_new_position, target_pos, diff, num_steps, step_size,
                   readback, steps_done, target_puts, stop_puts, spmg_puts>>
    /\ UNCHANGED <<fld_vars, tick_pre>>
    /\ UNCHANGED hist_vars
    /\ drift' = [drift EXCEPT ![m] = 0]
    /\ UNCHANGED rounding
    /\ UNCHANGED ilk_vars

\* finish without the reset of have_new_position.
finish_keep_pending(m) ==
    /\ pc[m] = "finish"
    /\ motor_is_moving' = [motor_is_moving EXCEPT ![m] = 0]
    /\ UNCHANGED have_new_position
    /\ pc' = [pc EXCEPT ![m] = "top"]
    /\ UNCHANGED <<value, user_readback_value, stop, stop_pause_move_go,
                   velocity, target_pos, diff, num_steps, step_size,
                   readback, steps_done, target_puts, stop_puts, spmg_puts>>
    /\ UNCHANGED <<fld_vars, tick_pre>>
    /\ UNCHANGED hist_vars
    /\ UNCHANGED <<drift, rounding>>
    /\ UNCHANGED ilk_vars

\* The end of a move, on every path out of the for loop.
finish(m) ==
    /\ pc[m] = "finish"
    /\ motor_is_moving' = [motor_is_moving EXCEPT ![m] = 0]
    /\ have_new_position' = [have_new_position EXCEPT ![m] = FALSE]
    /\ pc' = [pc EXCEPT ![m] = "top"]
    /\ UNCHANGED <<value, user_readback_value, stop, stop_pause_move_go,
                   velocity, target_pos, diff, num_steps, step_size,
                   readback, steps_done, target_puts, stop_puts, spmg_puts>>
    /\ UNCHANGED <<fld_vars, tick_pre>>
    /\ UNCHANGED hist_vars
    /\ UNCHANGED <<drift, rounding>>
    /\ UNCHANGED ilk_vars

\* async_lib.library.sleep(dwell) returns.
wake(m) ==
    /\ pc[m] \in Sleeping
    /\ AllSuspended
    /\ pc' = [pc EXCEPT ![m] = IF pc[m] = "sleep117" THEN "for" ELSE "top"]
    /\ UNCHANGED <<value, user_readback_value, stop, stop_pause_move_go,
                   motor_is_moving, velocity, have_new_position, target_pos,
                   diff, num_steps, step_size, readback, steps_done,
                   target_puts, stop_puts, spmg_puts>>
    /\ UNCHANGED fld_vars
    /\ tick_pre' = [tick_pre EXCEPT
                      ![m] = IF pc[m] = "sleep117" THEN NoTick
                             ELSE Snapshot(m)]
    /\ elapsed' = [elapsed EXCEPT
                     ![m] = IF pc[m] = "sleep117" THEN elapsed[m] + 1
                            ELSE elapsed[m]]
    /\ since_stop' = [since_stop EXCEPT
                        ![m] = IF since_stop[m] \in {0, 1}
                                 THEN since_stop[m] + 1
                                 ELSE since_stop[m]]
    /\ UNCHANGED <<written, late, redirect, away, old_target, start_pos,
                   move_target, broke, stop_rbv>>
    /\ UNCHANGED <<drift, rounding>>
    /\ UNCHANGED ilk_vars

\* A client puts to motor.VAL: value_write_hook runs.
put_VAL(m, t) ==
    /\ AllSuspended
    /\ pc[m] # "init"
    /\ target_puts < MaxTargetPuts
    /\ target_puts' = target_puts + 1
    /\ value' = [value EXCEPT ![m] = t]
    /\ have_new_position' = [have_new_position EXCEPT ![m] = TRUE]
    /\ UNCHANGED <<user_readback_value, stop, stop_pause_move_go,
                   motor_is_moving, velocity, pc, target_pos, diff,
                   num_steps, step_size, readback, steps_done,
                   stop_puts, spmg_puts>>
    /\ UNCHANGED fld_vars
    /\ tick_pre' = [tick_pre EXCEPT ![m] = NoTick]
    /\ written' = [written EXCEPT ![m] = t]
    /\ late' = [late EXCEPT ![m] = stop_pause_move_go[m] = "Stop"]
    /\ redirect' = [redirect EXCEPT
                      ![m] = IF pc[m] = "sleep117" /\ t # target_pos[m]
                               THEN "pending" ELSE "no"]
    /\ away' = [away EXCEPT
                  ![m] = ~OnTheWay(target_pos[m], user_readback_value[m], t)]
    /\ old_target' = [old_target EXCEPT ![m] = target_pos[m]]
    /\ since_stop' = [since_stop EXCEPT ![m] = -1]
    /\ UNCHANGED <<start_pos, move_target, elapsed, broke, stop_rbv>>
    /\ UNCHANGED <<drift, rounding>>
    /\ UNCHANGED ilk_vars

\* A client puts 1 to motor.STOP.
put_STOP(m) ==
    /\ AllSuspended
    /\ pc[m] # "init"
    /\ stop_puts < MaxStopPuts
    /\ stop_puts' = stop_puts + 1
    /\ stop' = [stop EXCEPT ![m] = 1]
    /\ UNCHANGED <<value, user_readback_value, stop_pause_move_go,
                   motor_is_moving, velocity, have_new_position, pc,
                   target_pos, diff, num_steps, step_size, readback,
                   steps_done, target_puts, spmg_puts>>
    /\ UNCHANGED fld_vars
    /\ tick_pre' = [tick_pre EXCEPT ![m] = NoTick]
    /\ late' = [late EXCEPT ![m] = TRUE]
    /\ since_stop' = [since_stop EXCEPT
                        ![m] = IF pc[m] = "sleep117" THEN 0 ELSE -1]
    /\ stop_rbv' = [stop_rbv EXCEPT ![m] = user_readback_value[m]]
    /\ UNCHANGED <<written, redirect, away, old_target, start_pos,
                   move_target, elapsed, broke>>
    /\ UNCHANGED <<drift, rounding>>
    /\ UNCHANGED ilk_vars

\* A client puts to motor.SPMG.
put_SPMG(m, s) ==
    /\ AllSuspended
    /\ pc[m] # "init"
    /\ spmg_puts < MaxSpmgPuts
    /\ spmg_puts' = spmg_puts + 1
    /\ stop_pause_move_go' = [stop_pause_move_go EXCEPT ![m] = s]
    /\ UNCHANGED <<value, user_readback_value, stop, motor_is_moving,
                   velocity, have_new_position, pc, target_pos, diff,
                   num_steps, step_size, readback, steps_done,
                   target_puts, stop_puts>>
    /\ UNCHANGED fld_vars
    /\ tick_pre' = [tick_pre EXCEPT ![m] = NoTick]
    /\ late' = [late EXCEPT ![m] = late[m] \/ s = "Stop"]
    /\ UNCHANGED <<written, redirect, away, old_target, start_pos,
                   move_target, elapsed, broke, since_stop, stop_rbv>>
    /\ UNCHANGED <<drift, rounding>>
    /\ UNCHANGED ilk_vars

\* A client puts to motor.VELO.
put_VELO(m, v) ==
    /\ AllSuspended
    /\ pc[m] # "init"
    /\ field_puts < MaxFieldPuts
    /\ field_puts' = field_puts + 1
    /\ velocity' = [velocity EXCEPT ![m] = v]
    /\ tick_pre' = [tick_pre EXCEPT ![m] = NoTick]
    /\ UNCHANGED <<value, user_readback_value, stop, stop_pause_move_go,
                   motor_is_moving, have_new_position, pc, target_pos, diff,
                   num_steps, step_size, readback, steps_done,
                   target_puts, stop_puts, spmg_puts>>
    /\ UNCHANGED <<defaults, motor_step_size, resolution,
                   raw_readback_value>>
    /\ UNCHANGED hist_vars
    /\ UNCHANGED <<drift, rounding>>
    /\ UNCHANGED ilk_vars

\* A client puts to motor.MRES.
put_MRES(m, r) ==
    /\ AllSuspended
    /\ pc[m] # "init"
    /\ field_puts < MaxFieldPuts
    /\ field_puts' = field_puts + 1
    /\ motor_step_size' = [motor_step_size EXCEPT ![m] = r]
    /\ tick_pre' = [tick_pre EXCEPT ![m] = NoTick]
    /\ UNCHANGED <<value, user_readback_value, stop, stop_pause_move_go,
                   motor_is_moving, velocity, have_new_position, pc,
                   target_pos, diff, num_steps, step_size, readback,
                   steps_done, target_puts, stop_puts, spmg_puts>>
    /\ UNCHANGED <<defaults, resolution, raw_readback_value>>
    /\ UNCHANGED hist_vars
    /\ UNCHANGED <<drift, rounding>>
    /\ UNCHANGED ilk_vars

\* The motor fields before the simulators start; the selection of the
\* constructor arguments is left to MtrInit and MtrInitAny.
MtrFields ==
    /\ value = [m \in Motors |-> Zero]
    /\ user_readback_value = [m \in Motors |-> Zero]
    /\ stop = [m \in Motors |-> 0]
    /\ stop_pause_move_go = [m \in Motors |-> "Go"]
    /\ motor_is_moving = [m \in Motors |-> 0]
    /\ velocity = [m \in Motors |-> 0]
    /\ have_new_position = [m \in Motors |-> FALSE]
    /\ pc = [m \in Motors |-> "init"]
    /\ target_pos = [m \in Motors |-> Zero]
    /\ diff = [m \in Motors |-> Zero]
    /\ num_steps = [m \in Motors |-> 0]
    /\ step_size = [m \in Motors |-> Zero]
    /\ readback = [m \in Motors |-> Zero]
    /\ steps_done = [m \in Motors |-> 0]
    /\ target_puts = 0
    /\ stop_puts = 0
    /\ spmg_puts = 0
    /\ written = [m \in Motors |-> Zero]
    /\ late = [m \in Motors |-> FALSE]
    /\ redirect = [m \in Motors |-> "no"]
    /\ away = [m \in Motors |-> FALSE]
    /\ old_target = [m \in Motors |-> Zero]
    /\ start_pos = [m \in Motors |-> Zero]
    /\ move_target = [m \in Motors |-> Zero]
    /\ elapsed = [m \in Motors |-> 0]
    /\ broke = [m \in Motors |-> FALSE]
    /\ since_stop = [m \in Motors |-> -1]
    /\ stop_rbv = [m \in Motors |-> Zero]
    /\ motor_step_size = [m \in Motors |-> 0]
    /\ resolution = [m \in Motors |-> MinResolution]
    /\ raw_readback_value = [m \in Motors |-> <<Zero, MinResolution>>]
    /\ field_puts = 0
    /\ tick_pre = [m \in Motors |-> NoTick]
    /\ drift = [m \in Motors |-> 0]

\* mcu1 and mcu2 as FakeSeleneIOC declares them: velocity=1., and the
\* default resolution=1e-6.
MtrInit ==
    /\ MtrFields
    /\ rounding = {0}
    /\ defaults = [m \in Motors |-> [velocity |-> DefaultVelocity,
                                     resolution |-> DefaultResolution]]

\* FakeMotor constructed with any velocity and resolution.
MtrInitAny ==
    /\ MtrFields
    /\ rounding = {0}
    /\ \E v \in Velocities, r \in Resolutions :
           defaults = [m \in Motors |-> [velocity |-> v, resolution |-> r]]

\* The same motors with  readback += step_size  in binary floating point:
\* the sum is the representable number nearest to the exact one, which lies
\* within one unit of the last place on either side of what the exact
\* arithmetic of this model gives.
MtrInitFloat ==
    /\ MtrFields
    /\ rounding = Rounding
    /\ defaults = [m \in Motors |-> [velocity |-> DefaultVelocity,
                                     resolution |-> DefaultResolution]]

Init == IlkInit /\ MtrInit

InitFloat == IlkInit /\ MtrInitFloat

InitAny == IlkInit /\ MtrInitAny

\* ------------------------------------------------------- specifications
\* The selectors alone: every client operation on every channel.
NextInterlock ==
    \/ \E ch \in Channels, val \in enum_strings : enable(ch, val)
    \/ \E ch \in Channels : selectable_read(ch)
    \/ \E ch \in Channels, val \in enum_strings : selectable_put(ch, val)

SpecInterlock == Init /\ [][NextInterlock]_vars

\* Motor mcu1 with the selector of its group that opens its gate.
MotorStep(m) ==
    \/ startup(m)
    \/ loop_top(m)
    \/ start_move(m)
    \/ for_body(m)
    \/ for_else(m)
    \/ finish(m)
    \/ wake(m)

MotorPuts(m) ==
    \/ \E t \in Targets : put_VAL(m, t)
    \/ put_STOP(m)
    \/ \E s \in SpmgValues : put_SPMG(m, s)

GateEnable(m) ==
    /\ AllSuspended
    /\ \E val \in enum_strings : enable((m - 1) * ChannelsPerGroup + 1, val)

Next ==
    \/ GateEnable(1)
    \/ MotorStep(1)
    \/ MotorPuts(1)

Spec == Init /\ [][Next]_vars

\* The same motor and clients with the additions of the for loop rounded.
SpecFloat == InitFloat /\ [][Next]_vars

\* The event loop resumes a coroutine whose sleep has ended and runs it to
\* its next sleep: the simulator's own steps are weakly fair.  Nothing
\* obliges a client to put anything.
SpecLive == Spec /\ WF_vars(MotorStep(1))

\* Motor mcu1 constructed with any velocity and resolution, and clients
\* that also put to its VELO and MRES fields.
FieldPuts(m) ==
    \/ \E v \in Velocities : put_VELO(m, v)
    \/ \E r \in Resolutions : put_MRES(m, r)

NextFields ==
    \/ GateEnable(1)
    \/ MotorStep(1)
    \/ MotorPuts(1)
    \/ FieldPuts(1)

SpecFields == InitAny /\ [][NextFields]_vars

\* Both motors and the selectors of both groups; clients send each motor
\* to 0.25, once.
NextGroups ==
    \/ \E ch \in Channels, val \in enum_strings :
           AllSuspended /\ enable(ch, val)
    \/ \E m \in Motors : MotorStep(m)
    \/ \E m \in Motors : value[m] = Zero /\ put_VAL(m, <<1, 4>>)

SpecGroups == Init /\ [][NextGroups]_vars

\* ------------------------------------------------------------ the claims
\* A channel's enabled state as a client sees it: Selected holds a value
\* that reads as on (the bool True, the int 1 or the string 'true').  The
\* initial int 0, the bool False and the string 'false' read as off.
IsOn(v) == v \in {"True", "1", "true"}
Enabled(ch) == IsOn(enable_rbv[ch])
EnabledIn(g) == {ch \in GroupChannels(g) : Enabled(ch)}

\* C1: at most one channel of an interlock group is enabled, whatever
\* request_enable writes were made from the all-disabled state (a request
\* to enable a second channel of the group is rejected).
C1_AtMostOneEnabled == \A g \in Groups : Cardinality(EnabledIn(g)) <= 1

\* C2: may_enable() of a group is true if and only if no channel of the
\* group is enabled.
C2_MayEnableIffNoneEnabled ==
    \A g \in Groups : can_enable(g) <=> (EnabledIn(g) = {})

\* Exactly one channel of a group is enabled after a request, and the
\* group's may_enable() is false, while the other group is still clear.
C2_Witness ==
    \E g \in Groups, h \in Groups :
        /\ g # h
        /\ Cardinality(EnabledIn(g)) = 1
        /\ last_enable.ch \in EnabledIn(g)
        /\ ~can_enable(g)
        /\ can_enable(h)

\* C3: may_move() of a group is true if and only if at least one channel of
\* the group is enabled; it is false in the initial state, and a request
\* that enables a channel makes it true.
C3_MayMoveIffSomeEnabled ==
    /\ \A g \in Groups : can_move(g) <=> (EnabledIn(g) # {})
    /\ last_enable.ch = 0 => \A g \in Groups : ~can_move(g)
    /\ (last_enable.ch # 0 /\ Enabled(last_enable.ch) /\ ~IsOn(last_enable.before))
           => can_move(mcu_index(last_enable.ch))

\* A request has just enabled a channel that was disabled, and may_move()
\* of its group is true while the group has a channel still disabled.
C3_Witness ==
    /\ last_enable.ch # 0
    /\ last_enable.val = "true"
    /\ ~IsOn(last_enable.before)
    /\ Enabled(last_enable.ch)
    /\ can_move(mcu_index(last_enable.ch))
    /\ \E ch \in GroupChannels(mcu_index(last_enable.ch)) : ~Enabled(ch)

\* C4: for a non-empty group, may_enable() and may_move() are never both
\* true.
C4_NeverBoth ==
    \A g \in Groups :
        GroupChannels(g) # {} => ~(can_enable(g) /\ can_move(g))

\* Both sides of the exclusion occur: one group may move and may not be
\* enabled further, the other may be enabled and may not move.
C4_Witness ==
    \E g \in Groups, h \in Groups :
        /\ can_move(g) /\ ~can_enable(g)
        /\ can_enable(h) /\ ~can_move(h)

\* C5: after a request_enable(false) on a channel, that channel is
\* disabled, in any interlock state.
C5_FalseAlwaysDisables ==
    (last_enable.ch # 0 /\ last_enable.val = "false")
        => ~Enabled(last_enable.ch)

\* C6: a request whose value equals the channel's current enabled state
\* changes nothing: the channel holds what it held before the request.
C6_Idempotent ==
    (last_enable.ch # 0 /\ ((last_enable.val = "true") <=> IsOn(last_enable.before)))
        => enable_rbv[last_enable.ch] = last_enable.before

\* request_enable(true) has been made on an already-enabled channel.
C6_Witness ==
    /\ last_enable.ch # 0
    /\ last_enable.val = "true"
    /\ IsOn(last_enable.before)
    /\ Enabled(last_enable.ch)

\* C7: with may_move() true, every finite sequence of puts to VAL that is
\* followed by no stop and no pause (no STOP put after the last target, and
\* SPMG not 'Stop' when the last target is put or afterwards) ends with
\* the motor at rest, for good, at the last target put.
C7_ReachesLastTarget ==
    \A m \in Motors :
        <>[]((can_move(m) /\ ~late[m])
                 => (user_readback_value[m] = written[m]
                     /\ motor_is_moving[m] = 0))

C9_StopFreezes ==
    \A m \in Motors :
        (since_stop[m] = 1 /\ pc[m] \in Sleeping)
            => /\ motor_is_moving[m] = 0
               /\ user_readback_value[m] = stop_rbv[m]

\* The number of ticks n with |d| = n * velocity * dwell, when there is
\* one (d a rational, v the velocity, dwell = 1 / tick_rate_hz).
IsWholeTicks(d, v) == (Abs(d[1]) * tick_rate_hz) % (d[2] * Abs(v)) = 0
WholeTicks(d, v) == (Abs(d[1]) * tick_rate_hz) \div (d[2] * Abs(v))

\* C10: an uninterrupted move over a distance of exactly n * velocity *
\* dwell is over after n ticks: the readback equals the target exactly and
\* is_moving is false.
C10_ExactMoveDone ==
    \A m \in Motors :
        LET d == RSub(move_target[m], start_pos[m])
        IN  ( /\ pc[m] \in Sleeping
              /\ ~broke[m]
              /\ IsWholeTicks(d, velocity[m])
              /\ elapsed[m] = WholeTicks(d, velocity[m]) )
            => /\ user_readback_value[m] = move_target[m]
               /\ motor_is_moving[m] = 0

\* The move from 0 to 0.3 at velocity 1 has ended after its third tick.
C10_Witness ==
    /\ pc[1] = "sleep90"
    /\ ~broke[1]
    /\ start_pos[1] = Zero
    /\ move_target[1] = <<3, 10>>
    /\ elapsed[1] = 3
    /\ user_readback_value[1] = <<3, 10>>
    /\ motor_is_moving[1] = 0

\* The pass of the while loop that motor m began from rest has ended in a
\* sleep, and no client has put to the motor since.
TickEnded(m) ==
    /\ tick_pre[m].valid
    /\ tick_pre[m].movn = 0
    /\ pc[m] \in Sleeping

\* That pass found the motor with VAL equal to the readback and no target
\* pending.
IdleTick(m) ==
    /\ TickEnded(m)
    /\ tick_pre[m].value = tick_pre[m].rbv
    /\ ~tick_pre[m].pending

\* C11 (as stated): a tick of an idle simulator whose target equals the
\* readback, with no target pending, changes no motor field, whatever the
\* stop and pause flags are.
C11_IdleTickChangesNothing ==
    \A m \in Motors :
        IdleTick(m) => Snapshot(m) = [tick_pre[m] EXCEPT !.gate = can_move(m)]

\* C11 (amended): such a tick changes no motor field other than the stop
\* request: target, readback, is_moving, pause and the pending flag keep
\* their values; a stop request is cleared when may_move() is true and
\* kept when it is false.
C11_IdleTickClearsStopOnly ==
    \A m \in Motors :
        IdleTick(m) =>
            /\ value[m] = tick_pre[m].value
            /\ user_readback_value[m] = tick_pre[m].rbv
            /\ motor_is_moving[m] = tick_pre[m].movn
            /\ stop_pause_move_go[m] = tick_pre[m].spmg
            /\ have_new_position[m] = tick_pre[m].pending
            /\ stop[m] = IF tick_pre[m].gate THEN 0 ELSE tick_pre[m].stop

\* An idle tick with the gate open found a stop request and SPMG at
\* 'Stop', and has cleared the stop request.
C11_Witness ==
    /\ IdleTick(1)
    /\ tick_pre[1].gate
    /\ tick_pre[1].stop = 1
    /\ tick_pre[1].spmg = "Stop"
    /\ pc[1] = "sleep90"
    /\ stop[1] = 0

\* C12: a read of a channel's selectable returns true if and only if the
\* channel is enabled or may_enable() of its group is true, on the channel
\* states at the time of the read.
C12_SelectableRead ==
    last_read.ch # 0 =>
        (IsOn(last_read.result)
             <=> (Enabled(last_read.ch)
                      \/ can_enable(mcu_index(last_read.ch))))

\* C13: interlock groups are independent.  A request_enable on a channel
\* (the step that sets last_enable to it) leaves may_enable() and
\* may_move() of every other group unchanged, as does every other step, and
\* a motor passes its gate exactly when a channel of its own group is
\* enabled (motor 1 by the first group, motor 2 by the second).
C13_GroupsIndependent ==
    /\ [][\A g \in Groups :
             last_enable'.ch \notin GroupChannels(g) =>
                 /\ can_enable(g)' = can_enable(g)
                 /\ can_move(g)' = can_move(g)]_vars
    /\ [][\A m \in Motors :
             (pc[m] = "top" /\ pc'[m] # "top") =>
                 (pc'[m] = "sleep77" <=> EnabledIn(m) = {})]_vars

\* Only a channel of the second group is enabled: motor 2 has moved, and
\* motor 1 has ticked with a target pending and stays at rest at 0.
C13_Witness ==
    /\ EnabledIn(1) = {}
    /\ EnabledIn(2) # {}
    /\ can_enable(1) /\ ~can_move(1)
    /\ user_readback_value[2] # Zero
    /\ pc[1] = "sleep77"
    /\ tick_pre[1].valid
    /\ tick_pre[1].pending
    /\ value[1] # Zero
    /\ user_readback_value[1] = Zero

\* C14: a motor constructed with velocity <= 0 or resolution <= 0 is
\* rejected at construction: its control loop never runs.
C14_BadConfigNeverRuns ==
    \A m \in Motors :
        (defaults[m].velocity <= 0 \/ defaults[m].resolution <= 0)
            => pc[m] = "init"

\* C20: once started, the control loop of a motor that was constructed
\* with a positive velocity and resolution never fails, whatever clients
\* put to VAL, STOP, SPMG, VELO and MRES between ticks.
C20_LoopNeverFails ==
    \A m \in Motors :
        (defaults[m].velocity > 0 /\ defaults[m].resolution > 0)
            => pc[m] # "error"

C16_PauseAborts ==
    \A m \in Motors :
        ( /\ TickEnded(m)
          /\ tick_pre[m].spmg = "Stop"
          /\ tick_pre[m].pending
          /\ tick_pre[m].value # tick_pre[m].rbv )
        => /\ user_readback_value[m] = tick_pre[m].rbv
           /\ motor_is_moving[m] = 0

\* C17: a tick that begins with a stop request, the motor at rest with
\* the gate open and a pending target away from the readback, starts no
\* move: afterwards the readback is unchanged, the stop request is
\* cleared, the motor is at rest and no target is pending.
C17_StopAtTickStart ==
    \A m \in Motors :
        ( /\ TickEnded(m)
          /\ tick_pre[m].gate
          /\ tick_pre[m].stop # 0
          /\ tick_pre[m].pending
          /\ tick_pre[m].value # tick_pre[m].rbv )
        => /\ user_readback_value[m] = tick_pre[m].rbv
           /\ stop[m] = 0
           /\ motor_is_moving[m] = 0
           /\ ~have_new_position[m]

\* C18: the readback changes only while is_moving is true (every step and
\* the final write of the target fall between the setting and the clearing
\* of is_moving), and is_moving is false whenever the simulator waits at
\* rest.
C18_ReadbackOnlyWhileMoving ==
    /\ [][\A m \in Motors :
             user_readback_value'[m] # user_readback_value[m] =>
                 (motor_is_moving[m] = 1 /\ motor_is_moving'[m] = 1)]_vars
    /\ [](\A m \in Motors :
             pc[m] \in {"init", "sleep77", "sleep90"}
                 => motor_is_moving[m] = 0)

\* A move of no step has written its target to the readback (0.05 from
\* 0) with is_moving set, and is_moving is about to be cleared.
C18_Witness ==
    /\ pc[1] = "finish"
    /\ num_steps[1] = 0
    /\ motor_is_moving[1] = 1
    /\ start_pos[1] = Zero
    /\ user_readback_value[1] = <<1, 20>>

\* C19: has_pending_target becomes true on every client put to VAL, is
\* false right after every exit from a move (completion, stop or pause),
\* and is cleared by nothing but the end of a move.
C19_PendingFlag ==
    [][\A m \in Motors :
          /\ \A t \in Targets : put_VAL(m, t) => have_new_position'[m]
          /\ (pc[m] = "finish" /\ pc'[m] # "finish")
                 => ~have_new_position'[m]
          /\ (have_new_position[m] /\ ~have_new_position'[m])
                 => (pc[m] = "finish" /\ motor_is_moving[m] = 1)]_vars

\* A move that a client's target started has just ended by a stop or a
\* pause, short of that target, and no target is pending any more.
C19_Witness ==
    /\ pc[1] = "top"
    /\ broke[1]
    /\ target_puts > 0
    /\ motor_is_moving[1] = 0
    /\ ~have_new_position[1]
    /\ user_readback_value[1] # written[1]

\* C21: a move interrupted by a stop or a pause leaves VAL equal to the
\* readback at which it froze; until a client puts a new target the motor
\* stays at rest there and does not resume toward the old target.
C21_InterruptOverwritesTarget ==
    \A m \in Motors :
        /\ (broke[m] /\ pc[m] = "finish")
               => value[m] = user_readback_value[m]
        /\ (broke[m] /\ pc[m] # "finish" /\ ~have_new_position[m])
               => /\ value[m] = user_readback_value[m]
                  /\ motor_is_moving[m] = 0
                  /\ pc[m] \in {"top", "sleep77", "sleep90"}

\* A move was interrupted short of its target, the client's target has
\* been replaced by the readback, and a later tick has left the motor at
\* rest there.
C21_Witness ==
    /\ broke[1]
    /\ ~have_new_position[1]
    /\ TickEnded(1)
    /\ pc[1] = "sleep90"
    /\ user_readback_value[1] # move_target[1]
    /\ value[1] # written[1]
    /\ value[1] = user_readback_value[1]

\* The direction of the latest move: 1 up, -1 down.
Direction(m) == IF RLess(start_pos[m], move_target[m]) THEN 1 ELSE -1

\* motor.RBV, rounding error included, lies in the closed interval between
\* the readback and the target the latest move began with.
WithinMove(m) ==
    /\ OnTheWay(user_readback_value[m], start_pos[m], move_target[m])
    /\ user_readback_value[m] = move_target[m]
           => drift[m] * Direction(m) <= 0
    /\ user_readback_value[m] = start_pos[m]
           => drift[m] * Direction(m) >= 0

\* The step just made has brought motor.RBV strictly nearer to the target:
\* the step is at least velocity * dwell long, the rounding error of its
\* addition a unit of the last place.
TowardTarget(m) ==
    RLess(RAbs(RSub(move_target[m], user_readback_value[m])),
          RAbs(RSub(move_target[m],
                    RSub(user_readback_value[m], step_size[m]))))

\* C22: during a move the readback never overshoots: after every step it
\* lies in the closed interval between the readback and the target the
\* move began with, and every step moves it strictly toward that target.
C22_NeverOvershoots ==
    \A m \in Motors :
        pc[m] = "sleep117" => WithinMove(m) /\ TowardTarget(m)

\* C22, amended: the readback overshoots by rounding error only.  After
\* every step the exact sum lies in the closed interval and is strictly
\* nearer to the target, motor.RBV is within one unit of the last place
\* per step made of that sum, and the write of the target that ends an
\* uninterrupted move leaves no error behind.
C22_OvershootsByRoundingOnly ==
    \A m \in Motors :
        /\ pc[m] = "sleep117"
               => /\ OnTheWay(user_readback_value[m], start_pos[m],
                              move_target[m])
                  /\ TowardTarget(m)
                  /\ Abs(drift[m]) <= steps_done[m]
        /\ (pc[m] = "finish" /\ ~broke[m])
               => /\ user_readback_value[m] = move_target[m]
                  /\ drift[m] = 0

\* The last of several steps has been made, the exact sum is the target,
\* and the rounded sum in motor.RBV lies beyond it.
C22_Witness ==
    /\ pc[1] = "sleep117"
    /\ num_steps[1] >= 2
    /\ steps_done[1] = num_steps[1]
    /\ user_readback_value[1] = move_target[1]
    /\ drift[1] * Direction(1) > 0
    /\ ~WithinMove(1)

====
